---- MODULE Spec2Model ----
(***************************************************************************)
(* wheel-reader: read the */METADATA entry of wheel archives given as      *)
(* URLs or local paths and stream them to standard output as one JSON      *)
(* object.  The model follows src/src/main.rs (the executable) and         *)
(* src/src/reader.rs (the library variant of the same code).               *)
(*                                                                         *)
(* Strings are sequences of tokens: "https://h.org/d/a.whl" is             *)
(* <<"https", ":", "//", "h.org", "/", "d", "/", "a.whl">>.  A path is the *)
(* token sequence of its text, "/" tokens included.                        *)
(***************************************************************************)
EXTENDS Integers, Sequences, FiniteSets, TLC

VARIABLES
    args,       \* the command line: a sequence of raw locator strings
    proc,       \* where main() is: init, usage_error, collected, streaming, done, panicked
    parsed,     \* the Result of WheelUrl::from_str for each argument
    urls,       \* Args.urls: the parsed locators, one fetch task each
    pc,         \* per task: the step of run() it has reached
    cause,      \* per task: the error run() returned, "" while it has none
    archive,    \* per task: the central directory of the archive it opened
    entry,      \* per task: the index find_map returned (0-based), -1 before
    buf,        \* per task: the bytes read_to_end put in buf
    hung,       \* the tasks whose remote read never answers
    built,      \* the operators built so far: the origin of each, in build order
    completed,  \* the tasks whose run() returned Ok, in completion order
    held,       \* results the stream holds back (always empty for FuturesUnordered)
    delivered,  \* the (key, text) pairs the encoder was given, in arrival order
    stdout,     \* the tokens written to standard output
    services,   \* Services.services: the cache, (locator type, endpoint) -> operator
    opCalls,    \* the calls of Services::operator that returned: locator and operator
    svc         \* the caller of Services::operator: ready, or panicked

vars == <<args, proc, parsed, urls, pc, cause, archive, entry, buf, hung,
          built, completed, held, delivered, stdout, services, opCalls, svc>>

cacheVars == <<services, opCalls, svc>>
pipelineVars == <<args, proc, parsed, urls, pc, cause, archive, entry, buf, hung,
                  built, completed, held, delivered, stdout>>

(***************************************************************************)
(* Bounds of the model.                                                    *)
(***************************************************************************)
MaxArgs == 2        \* command-line arguments of a run
MaxEntries == 2     \* entries of a central directory (exhaustive check of find)
MaxSegs == 2        \* path segments of a generated locator string
MaxCalls == 3       \* calls of Services::operator

(***************************************************************************)
(* Sequence helpers.                                                       *)
(***************************************************************************)
RECURSIVE Flatten(_)
Flatten(ss) == IF ss = <<>> THEN <<>> ELSE Head(ss) \o Flatten(Tail(ss))

SeqsUpTo(S, n) == UNION {[1..k -> S] : k \in 0..n}

Range(f) == {f[x] : x \in DOMAIN f}

Min(S) == CHOOSE x \in S : \A y \in S : x <= y

(***************************************************************************)
(* Url::parse and Url::from_file_path as the code uses them.               *)
(***************************************************************************)
NoUrl == [scheme |-> "", host |-> "", hostKind |-> "none", port |-> "", path |-> <<>>]

Ok(v) == [ok |-> TRUE, val |-> v, err |-> ""]
Err(e) == [ok |-> FALSE, val |-> [url_type |-> "None", url |-> NoUrl], err |-> e]
UrlOk(u) == [ok |-> TRUE, url |-> u, err |-> ""]
UrlErr(e) == [ok |-> FALSE, url |-> NoUrl, err |-> e]

SpecialSchemes == {"http", "https", "ftp", "file"}
Segs == {"d", "a.whl", "a b.whl"}
\* a scheme is a word that starts with a letter; every segment of the model does
SchemeWords == SpecialSchemes \cup {"d", "a.whl"}
DomainHosts == {"h.org"}
IpHosts == {"10.0.0.1"}

DefaultPort(scheme) ==
    CASE scheme = "http" -> "80"
      [] scheme = "https" -> "443"
      [] scheme = "ftp" -> "21"
      [] OTHER -> ""

\* percent-encoding of one path token: a space becomes %20
PctEncode(tok) == IF tok = "a b.whl" THEN "a%20b.whl" ELSE tok
PctEncodeAll(toks) == [k \in 1..Len(toks) |-> PctEncode(toks[k])]

HostKind(h) ==
    IF h \in IpHosts THEN "ipv4" ELSE IF h = "" THEN "none" ELSE "domain"

\* the position of the first "/" token of toks, Len(toks)+1 when it has none
FirstSlash(toks) ==
    IF \E k \in 1..Len(toks) : toks[k] = "/"
    THEN Min({k \in 1..Len(toks) : toks[k] = "/"})
    ELSE Len(toks) + 1

PathOrRoot(toks) == IF toks = <<>> THEN <<"/">> ELSE PctEncodeAll(toks)

UrlParse(s) ==
    IF ~(Len(s) >= 2 /\ s[1] \in SchemeWords /\ s[2] = ":")
    THEN UrlErr("RelativeUrlWithoutBase")
    ELSE LET scheme == s[1]
             afterColon == SubSeq(s, 3, Len(s))
             rest == IF afterColon # <<>> /\ Head(afterColon) = "//"
                     THEN Tail(afterColon) ELSE afterColon
             cut == FirstSlash(rest)
             auth == SubSeq(rest, 1, cut - 1)
             path == SubSeq(rest, cut, Len(rest))
         IN  IF scheme \notin SpecialSchemes
             THEN UrlOk([scheme |-> scheme, host |-> "", hostKind |-> "none",
                         port |-> "", path |-> PctEncodeAll(afterColon)])
             ELSE IF scheme = "file"
             THEN UrlOk([scheme |-> scheme,
                         host |-> IF auth = <<>> THEN "" ELSE auth[1],
                         hostKind |-> IF auth = <<>> THEN "none" ELSE HostKind(auth[1]),
                         port |-> "", path |-> PathOrRoot(path)])
             ELSE IF auth = <<>> \/ auth[1] = "" \/ auth[1] = ":"
             THEN UrlErr("EmptyHost")
             ELSE LET p == IF Len(auth) = 3 /\ auth[2] = ":" THEN auth[3] ELSE ""
                  IN  UrlOk([scheme |-> scheme, host |-> auth[1],
                             hostKind |-> HostKind(auth[1]),
                             port |-> IF p = DefaultPort(scheme) THEN "" ELSE p,
                             path |-> PathOrRoot(path)])

\* Path::components drops a trailing separator
DropTrailingSlash(toks) ==
    IF Len(toks) > 1 /\ toks[Len(toks)] = "/" THEN SubSeq(toks, 1, Len(toks) - 1) ELSE toks

\* from_file_path encodes every component, its "%" included
FilePathEncode(tok) ==
    CASE tok = "a b.whl" -> "a%20b.whl"
      [] tok = "a%20b.whl" -> "a%2520b.whl"
      [] OTHER -> tok

UrlFromFilePath(s) ==
    IF s # <<>> /\ s[1] = "/"
    THEN UrlOk([scheme |-> "file", host |-> "", hostKind |-> "none", port |-> "",
                path |-> [k \in 1..Len(DropTrailingSlash(s)) |->
                             FilePathEncode(DropTrailingSlash(s)[k])]])
    ELSE UrlErr("NotAbsolute")

(***************************************************************************)
(* WheelUrl                                                                *)
(***************************************************************************)
\* a plausible slip: a scheme added to the first arm without a backend for it
TryFromUrlAlsoFtp(url) ==
    CASE url.scheme \in {"https", "http", "ftp"} -> Ok([url_type |-> "Httpx", url |-> url])
      [] url.scheme = "file" -> Ok([url_type |-> "File", url |-> url])
      [] OTHER -> Err("unknown scheme")

TryFromUrl(url) ==
    CASE url.scheme \in {"https", "http"} -> Ok([url_type |-> "Httpx", url |-> url])
      [] url.scheme = "file" -> Ok([url_type |-> "File", url |-> url])
      [] OTHER -> Err("unknown scheme")

FromStr(s) ==
    LET r == UrlParse(s)
    IN  IF ~r.ok
        THEN LET f == UrlFromFilePath(s)
             IN  IF f.ok THEN Ok([url_type |-> "File", url |-> f.url])
                 ELSE Err("invalid path")
        ELSE TryFromUrl(r.url)

Path(w) == w.url.path

\* Url's Display: the serialization
UrlToString(u) ==
    <<u.scheme, ":">>
        \o (IF u.scheme \in SpecialSchemes THEN <<"//">> ELSE <<>>)
        \o (IF u.host = "" THEN <<>> ELSE <<u.host>>)
        \o (IF u.port = "" THEN <<>> ELSE <<":", u.port>>)
        \o u.path

\* WheelUrl's Display: the URL of a remote locator, the path of a local one
Display(w) == IF w.url_type = "Httpx" THEN UrlToString(w.url) ELSE Path(w)


\* WheelUrl::service: the builder of the backend, or the panic of unwrap()
Endpoint(w) ==
    IF w.url_type = "Httpx" THEN <<w.url.scheme, "://", w.url.host>> ELSE <<"/">>

ServicePanics(w) == w.url_type = "Httpx" /\ w.url.hostKind # "domain"

\* the origin a backend is bound to: (locator type, endpoint)
OriginKey(w) == <<w.url_type, Endpoint(w)>>

\* WheelUrl::file_name: the last component of the path, <<>> when it has none
StripSlashes(toks) ==
    LET keep == {k \in 1..Len(toks) : toks[k] # "/"}
    IN  IF keep = {} THEN <<>> ELSE SubSeq(toks, 1, CHOOSE k \in keep : \A j \in keep : j <= k)

FileName(w) ==
    LET p == StripSlashes(Path(w))
    IN  IF p = <<>> \/ p[Len(p)] = ".." THEN Err("no file name")
        ELSE [ok |-> TRUE, val |-> p[Len(p)], err |-> ""]

(***************************************************************************)
(* The archive: a central directory of entries, each a file name (which    *)
(* may fail to decode as text) and its bytes.                              *)
(***************************************************************************)
Name(toks) == [ok |-> TRUE, toks |-> toks]
RawName(toks) == [ok |-> FALSE, toks |-> toks]
Bytes(valid, text) == [utf8 |-> valid, text |-> text]
File(name, data) == [name |-> name, data |-> data]

TextA == <<"Name: A", "\n">>
TextB == <<"Name: B", "\n">>
NoBytes == Bytes(TRUE, <<>>)

\* RE_METADATA = ".*/METADATA$", used with is_match: an unanchored search.
\* "." matches every character but the line feed.
ReMetadataIsMatch(toks) ==
    \E s \in 1..(Len(toks) + 1) : \E k \in s..(Len(toks) + 1) :
        /\ \A j \in s..(k - 1) : toks[j] # "\n"
        /\ SubSeq(toks, k, Len(toks)) = <<"/", "METADATA">>

\* a plausible slip: enumerate() after the undecodable names were dropped
FindEntryEnumerateAfterFilter(dir) ==
    LET decodable == {k \in 1..Len(dir) : dir[k].name.ok}
        hits == {k \in decodable : ReMetadataIsMatch(dir[k].name.toks)}
    IN  IF hits = {} THEN -1
        ELSE Cardinality({k \in decodable : k < Min(hits)})

\* run's search of the directory: the 0-based index of the entry, -1 for None
FindEntry(dir) ==
    LET decodable == {k \in 1..Len(dir) : dir[k].name.ok}
        hits == {k \in decodable : ReMetadataIsMatch(dir[k].name.toks)}
    IN  IF hits = {} THEN -1 ELSE Min(hits) - 1

(***************************************************************************)
(* The JSON encoder (destream_json::encode_map) as the specification       *)
(* describes it, and the strings it writes.                                *)
(***************************************************************************)
P(c) == [k |-> "punct", v |-> <<c>>]

JsonEscape(tok) ==
    CASE tok = "\n" -> "\\n"
      [] tok = "\"" -> "\\\""
      [] OTHER -> tok

JsonString(toks) == [k |-> "str", v |-> [j \in 1..Len(toks) |-> JsonEscape(toks[j])]]

EncodeOpen == <<P("{")>>

\* a plausible slip: the separator written before every member
EncodeMemberAlwaysComma(first, key, text) ==
    <<P(",")>> \o <<JsonString(<<key>>), P(":"), JsonString(text)>>

EncodeMember(first, key, text) ==
    (IF first THEN <<>> ELSE <<P(",")>>) \o <<JsonString(<<key>>), P(":"), JsonString(text)>>

EncodeClose == <<P("}")>>

(***************************************************************************)
(* The inputs of a run.                                                    *)
(***************************************************************************)
UrlRemote == <<"https", ":", "//", "h.org", "/", "a.whl">>
UrlLocal == <<"/", "d", "/", "a.whl">>
UrlRoot == <<"https", ":", "//", "h.org">>
UrlFtp == <<"ftp", ":", "//", "h.org", "/", "a.whl">>
UrlIp == <<"https", ":", "//", "10.0.0.1", "/", "a.whl">>

PipelineInputs == {UrlRemote, UrlLocal, UrlRoot, UrlFtp, UrlIp}

MetaP == <<"p", "/", "METADATA">>
MetaQ == <<"q", "/", "METADATA">>

PipelineArchives ==
    { <<File(RawName(MetaP), Bytes(FALSE, <<>>)), File(Name(MetaP), Bytes(TRUE, TextA))>>,
      <<File(Name(<<"p", "/", "RECORD">>), Bytes(TRUE, TextA))>>,
      <<File(Name(MetaP), Bytes(FALSE, <<>>))>>,
      <<File(Name(MetaQ), Bytes(TRUE, TextB)), File(Name(MetaP), Bytes(TRUE, TextA))>> }

Tasks == DOMAIN urls

\* Services::default(): an empty cache
CacheEmpty ==
    /\ services = <<>>
    /\ opCalls = <<>>
    /\ svc = "ready"
Terminal == {"Completed", "Failed"}
Ended == {"usage_error", "done", "panicked"}

(***************************************************************************)
(* main                                                                    *)
(***************************************************************************)
Init ==
    /\ CacheEmpty
    /\ args \in SeqsUpTo(PipelineInputs, MaxArgs)
    /\ proc = "init"
    /\ parsed = <<>>
    /\ urls = <<>>
    /\ pc = <<>>
    /\ cause = <<>>
    /\ archive = <<>>
    /\ entry = <<>>
    /\ buf = <<>>
    /\ hung = {}
    /\ built = <<>>
    /\ completed = <<>>
    /\ held = {}
    /\ delivered = <<>>
    /\ stdout = <<>>

\* a plausible slip: the arguments that do not parse are dropped (filter_map)
\* and the others are fetched
ParseArgsSkipInvalid ==
    /\ UNCHANGED cacheVars
    /\ proc = "init"
    /\ parsed' = [k \in 1..Len(args) |-> FromStr(args[k])]
    /\ LET good == SelectSeq(parsed', LAMBDA r : r.ok)
       IN  /\ proc' = "collected"
           /\ urls' = [k \in 1..Len(good) |-> good[k].val]
           /\ pc' = [k \in 1..Len(good) |-> "Pending"]
           /\ cause' = [k \in 1..Len(good) |-> ""]
           /\ archive' = [k \in 1..Len(good) |-> <<>>]
           /\ entry' = [k \in 1..Len(good) |-> -1]
           /\ buf' = [k \in 1..Len(good) |-> NoBytes]
           /\ hung' \in SUBSET (1..Len(good))
    /\ UNCHANGED <<args, built, completed, held, delivered, stdout>>

\* Args::parse(): every argument through WheelUrl::from_str; one error ends the
\* process before anything else runs. Then the futures are collected, unpolled.
ParseArgs ==
    /\ UNCHANGED cacheVars
    /\ proc = "init"
    /\ parsed' = [k \in 1..Len(args) |-> FromStr(args[k])]
    /\ IF \E k \in 1..Len(args) : ~parsed'[k].ok
       THEN /\ proc' = "usage_error"
            /\ UNCHANGED <<urls, pc, cause, archive, entry, buf, hung>>
       ELSE /\ proc' = "collected"
            /\ urls' = [k \in 1..Len(args) |-> parsed'[k].val]
            /\ pc' = [k \in 1..Len(args) |-> "Pending"]
            /\ cause' = [k \in 1..Len(args) |-> ""]
            /\ archive' = [k \in 1..Len(args) |-> <<>>]
            /\ entry' = [k \in 1..Len(args) |-> -1]
            /\ buf' = [k \in 1..Len(args) |-> NoBytes]
            /\ hung' \in SUBSET (1..Len(args))
    /\ UNCHANGED <<args, built, completed, held, delivered, stdout>>

\* the first poll of io::copy: the encoder opens the object
Start ==
    /\ UNCHANGED cacheVars
    /\ proc = "collected"
    /\ proc' = "streaming"
    /\ stdout' = stdout \o EncodeOpen
    /\ UNCHANGED <<args, parsed, urls, pc, cause, archive, entry, buf, hung,
                   built, completed, held, delivered>>

\* a plausible slip: the failed task is started again instead of being reported
FailRetry(i, why) ==
    /\ pc' = [pc EXCEPT ![i] = "Pending"]
    /\ cause' = [cause EXCEPT ![i] = why]
    /\ proc' = proc

\* run() returned Err: the stream yields it and the closure's expect panics
Fail(i, why) ==
    /\ pc' = [pc EXCEPT ![i] = "Failed"]
    /\ cause' = [cause EXCEPT ![i] = why]
    /\ proc' = "panicked"

\* line 115: url.service().build()?
Resolve(i) ==
    /\ UNCHANGED cacheVars
    /\ proc = "streaming" /\ i \in Tasks /\ pc[i] = "Pending"
    /\ \/ /\ ServicePanics(urls[i])
          /\ proc' = "panicked"
          /\ cause' = [cause EXCEPT ![i] = "unwrap on None"]
          /\ UNCHANGED <<pc, built>>
       \/ /\ ~ServicePanics(urls[i])
          /\ pc' = [pc EXCEPT ![i] = "BackendResolved"]
          /\ built' = Append(built, OriginKey(urls[i]))
          /\ UNCHANGED <<proc, cause>>
       \/ /\ ~ServicePanics(urls[i])
          /\ Fail(i, "build")
          /\ UNCHANGED built
    /\ UNCHANGED <<args, parsed, urls, archive, entry, buf, hung,
                   completed, held, delivered, stdout>>

\* lines 116-120: the reader over the path, and the archive's directory
Open(i) ==
    /\ UNCHANGED cacheVars
    /\ proc = "streaming" /\ i \in Tasks /\ pc[i] = "BackendResolved"
    /\ i \notin hung
    /\ \/ /\ \E a \in PipelineArchives : archive' = [archive EXCEPT ![i] = a]
          /\ pc' = [pc EXCEPT ![i] = "ArchiveOpened"]
          /\ UNCHANGED <<proc, cause>>
       \/ /\ \E why \in {"IOError", "ArchiveError"} : Fail(i, why)
          /\ UNCHANGED archive
    /\ UNCHANGED <<args, parsed, urls, entry, buf, hung,
                   built, completed, held, delivered, stdout>>

\* lines 121-128: the first entry whose name matches RE_METADATA
Locate(i) ==
    /\ UNCHANGED cacheVars
    /\ proc = "streaming" /\ i \in Tasks /\ pc[i] = "ArchiveOpened"
    /\ IF FindEntry(archive[i]) = -1
       THEN /\ Fail(i, "NotFoundError")
            /\ UNCHANGED entry
       ELSE /\ entry' = [entry EXCEPT ![i] = FindEntry(archive[i])]
            /\ pc' = [pc EXCEPT ![i] = "EntryLocated"]
            /\ UNCHANGED <<proc, cause>>
    /\ UNCHANGED <<args, parsed, urls, archive, buf, hung,
                   built, completed, held, delivered, stdout>>

\* lines 129-131: the entry read to its end
Read(i) ==
    /\ UNCHANGED cacheVars
    /\ proc = "streaming" /\ i \in Tasks /\ pc[i] = "EntryLocated"
    /\ \/ /\ buf' = [buf EXCEPT ![i] = archive[i][entry[i] + 1].data]
          /\ pc' = [pc EXCEPT ![i] = "EntryRead"]
          /\ UNCHANGED <<proc, cause>>
       \/ /\ Fail(i, "IOError")
          /\ UNCHANGED buf
    /\ UNCHANGED <<args, parsed, urls, archive, entry, hung,
                   built, completed, held, delivered, stdout>>


\* a plausible slip: String::from_utf8_lossy, which never fails
FromUtf8Lossy(b) == [ok |-> TRUE, val |-> b.text]

\* String::from_utf8(buf)
FromUtf8(b) == IF b.utf8 THEN [ok |-> TRUE, val |-> b.text] ELSE [ok |-> FALSE, val |-> <<>>]

\* a stream that keeps the input order (FuturesOrdered, buffered): a result waits
\* until every earlier future has been yielded
StreamYieldInOrder(i, waiting, nYielded) ==
    LET avail == waiting \cup {i}
        n == CHOOSE m \in 0..Cardinality(avail) :
                /\ \A k \in 1..m : nYielded + k \in avail
                /\ (nYielded + m + 1) \notin avail
    IN  [k \in 1..n |-> nYielded + k]

\* FuturesUnordered: the future that completed is yielded at once
StreamYield(i, waiting, nYielded) == <<i>>

\* lines 144-154: each yielded (url, text) through the closure (file_name().expect)
\* into the encoder, whose bytes io::copy writes to stdout
RECURSIVE Feed(_, _, _)
Feed(ys, del, out) ==
    IF ys = <<>> THEN [delivered |-> del, stdout |-> out, panicked |-> FALSE]
    ELSE LET j == Head(ys)
             fn == FileName(urls[j])
             text == FromUtf8(buf[j]).val
         IN  IF ~fn.ok THEN [delivered |-> del, stdout |-> out, panicked |-> TRUE]
             ELSE Feed(Tail(ys),
                       Append(del, [task |-> j, key |-> fn.val, text |-> text]),
                       out \o EncodeMember(del = <<>>, fn.val, text))

\* line 132 and the poll that yields the result
Finish(i) ==
    /\ UNCHANGED cacheVars
    /\ proc = "streaming" /\ i \in Tasks /\ pc[i] = "EntryRead"
    /\ IF ~FromUtf8(buf[i]).ok
       THEN /\ Fail(i, "EncodingError")
            /\ UNCHANGED <<completed, held, delivered, stdout>>
       ELSE LET ys == StreamYield(i, held, Len(completed) - Cardinality(held))
                r == Feed(ys, delivered, stdout)
            IN  /\ pc' = [pc EXCEPT ![i] = "Completed"]
                /\ completed' = Append(completed, i)
                /\ held' = (held \cup {i}) \ Range(ys)
                /\ delivered' = r.delivered
                /\ stdout' = r.stdout
                /\ proc' = IF r.panicked THEN "panicked" ELSE proc
                /\ UNCHANGED cause
    /\ UNCHANGED <<args, parsed, urls, archive, entry, buf, hung, built>>

\* the stream is exhausted: the encoder closes the object, copy returns
Close ==
    /\ UNCHANGED cacheVars
    /\ proc = "streaming"
    /\ \A i \in Tasks : pc[i] = "Completed"
    /\ held = {}
    /\ proc' = "done"
    /\ stdout' = stdout \o EncodeClose
    /\ UNCHANGED <<args, parsed, urls, pc, cause, archive, entry, buf, hung,
                   built, completed, held, delivered>>

Next ==
    \/ ParseArgs
    \/ Start
    \/ \E i \in Tasks : Resolve(i)
    \/ \E i \in Tasks : Open(i)
    \/ \E i \in Tasks : Locate(i)
    \/ \E i \in Tasks : Read(i)
    \/ \E i \in Tasks : Finish(i)
    \/ Close

Spec == Init /\ [][Next]_vars

\* the scheduler polls whatever can run; a hung task never can
FairSpec == Spec /\ WF_vars(Next)

(***************************************************************************)
(* The search of the directory, over every directory within the bounds.    *)
(***************************************************************************)
EntryNames ==
    { Name(MetaP), Name(MetaQ), Name(<<"METADATA">>), Name(<<"p", "/", "RECORD">>),
      Name(<<"x", "METADATA">>), Name(<<"p", "/", "METADATA", "/", "x">>),
      Name(<<"p", "\n", "q", "/", "METADATA">>), RawName(MetaP) }

AllDirectories == SeqsUpTo({File(n, Bytes(TRUE, TextA)) : n \in EntryNames}, MaxEntries)

InitFind ==
    /\ CacheEmpty
    /\ args = <<UrlLocal>>
    /\ proc = "streaming"
    /\ parsed = <<FromStr(UrlLocal)>>
    /\ urls = <<FromStr(UrlLocal).val>>
    /\ pc = <<"ArchiveOpened">>
    /\ cause = <<"">>
    /\ archive \in {<<d>> : d \in AllDirectories}
    /\ entry = <<-1>>
    /\ buf = <<NoBytes>>
    /\ hung = {}
    /\ built = <<OriginKey(FromStr(UrlLocal).val)>>
    /\ completed = <<>>
    /\ held = {}
    /\ delivered = <<>>
    /\ stdout = EncodeOpen

NextFind == \E i \in Tasks : Locate(i)

SpecFind == InitFind /\ [][NextFind]_vars

(***************************************************************************)
(* WheelUrl::from_str, over every locator string within the bounds.        *)
(***************************************************************************)
PathToks(segs) == Flatten([k \in 1..Len(segs) |-> <<"/", segs[k]>>])
RelToks(segs) == <<Head(segs)>> \o PathToks(Tail(segs))
SegSeqs == SeqsUpTo(Segs, MaxSegs)

UrlStrings ==
    { <<scheme, ":", "//", host>> \o port \o PathToks(segs) :
        scheme \in {"http", "https", "ftp"},
        host \in DomainHosts \cup IpHosts,
        port \in {<<>>, <<":", "8080">>, <<":", "443">>},
        segs \in SegSeqs }

FileUrlStrings ==
    { <<"file", ":", "//">> \o host \o PathToks(segs) :
        host \in {<<>>, <<"h.org">>}, segs \in SegSeqs \ {<<>>} }

OtherSchemeStrings == { <<"d", ":">> \o PathToks(segs) : segs \in SegSeqs }

AbsolutePaths == { PathToks(segs) : segs \in SegSeqs \ {<<>>} } \cup {<<"/">>, <<"/", "d", "/">>}
RelativePaths == { RelToks(segs) : segs \in SegSeqs \ {<<>>} }

RawStrings ==
    UrlStrings \cup FileUrlStrings \cup OtherSchemeStrings \cup AbsolutePaths
        \cup RelativePaths \cup {<<"https", ":", "//">>}

InitParse ==
    /\ CacheEmpty
    /\ args \in {<<s>> : s \in RawStrings}
    /\ proc = "init"
    /\ parsed = <<>>
    /\ urls = <<>>
    /\ pc = <<>>
    /\ cause = <<>>
    /\ archive = <<>>
    /\ entry = <<>>
    /\ buf = <<>>
    /\ hung = {}
    /\ built = <<>>
    /\ completed = <<>>
    /\ held = {}
    /\ delivered = <<>>
    /\ stdout = <<>>

NextParse == ParseArgs

SpecParse == InitParse /\ [][NextParse]_vars


(***************************************************************************)
(* Properties                                                              *)
(***************************************************************************)
Count(seq, x) == Cardinality({k \in 1..Len(seq) : seq[k] = x})
DeliveredTasks == [k \in 1..Len(delivered) |-> delivered[k].task]
Last(seq) == seq[Len(seq)]

\* the members of the output: its string tokens, pairwise
StrToks(out) == SelectSeq(out, LAMBDA t : t.k = "str")
NMembers(out) == Len(StrToks(out)) \div 2
Member(out, n) == <<StrToks(out)[2 * n - 1], StrToks(out)[2 * n]>>

\* C1: every origin has exactly one backend-handle construction event, whatever
\* the locators and the interleaving of their tasks.
C1_OneHandlePerOrigin ==
    \A k \in 1..Len(built) : Count(built, built[k]) = 1

\* C2: members are written in completion order: the n-th member of the output is
\* the n-th task that completed, whatever its position in the argument list, and
\* every completed task but one whose delivery panicked has been written.
C2_CompletionOrder ==
    /\ NMembers(stdout) <= Len(completed)
    /\ NMembers(stdout) >= Len(completed) - 1
    /\ proc # "panicked" => NMembers(stdout) = Len(completed)
    /\ \A n \in 1..NMembers(stdout) :
          Member(stdout, n) = << JsonString(<<FileName(urls[completed[n]]).val>>),
                                 JsonString(FromUtf8(buf[completed[n]]).val) >>

C2_Witness ==
    /\ proc = "done"
    /\ completed = <<2, 1>>
    /\ buf[1] # buf[2]
    /\ NMembers(stdout) = 2

\* C3: when one task has failed, every other task still reaches a terminal state
\* of its own by the time the process ends.
C3_SiblingsRunToEnd ==
    (proc \in Ended /\ \E i \in Tasks : pc[i] = "Failed")
        => \A j \in Tasks : pc[j] \in Terminal

\* C4: when the process has ended, standard output is empty or one complete
\* object, from its opening brace to the closing one.
C4_OutputWellFormed ==
    proc \in Ended =>
        \/ stdout = <<>>
        \/ Len(stdout) >= 2 /\ Head(stdout) = P("{") /\ Last(stdout) = P("}")

\* C5: when the process has ended, every input locator has produced exactly one
\* result and that result was handed to the encoder exactly once.
C5_OneResultPerLocator ==
    proc \in Ended =>
        \A i \in Tasks : pc[i] \in Terminal /\ Count(DeliveredTasks, i) = 1

\* C6: a task that completed successfully has its member in the output, also
\* while another task stays pending forever; the write happens in the poll that
\* completes the task, so it is there in every later state.
C6_CompletedIsWritten ==
    \A i \in Tasks : pc[i] = "Completed" =>
        /\ Count(DeliveredTasks, i) = 1
        /\ NMembers(stdout) = Len(delivered)

\* C7: the output is "{", the members in arrival order with a comma before every
\* member but the first, and "}" once the stream is exhausted; no raw line feed
\* or quote is left inside a string; an empty stream gives "{}".
EncodedBody(del) ==
    Flatten([k \in 1..Len(del) |->
        (IF k = 1 THEN <<>> ELSE <<P(",")>>)
            \o <<JsonString(<<del[k].key>>), P(":"), JsonString(del[k].text)>>])

C7_EncodedObject ==
    /\ proc \in {"init", "usage_error", "collected"} => stdout = <<>>
    /\ proc \in {"streaming", "panicked"} => stdout = <<P("{")>> \o EncodedBody(delivered)
    /\ proc = "done" => stdout = <<P("{")>> \o EncodedBody(delivered) \o <<P("}")>>
    /\ \A k \in 1..Len(stdout) :
          stdout[k].k = "str" => \A j \in 1..Len(stdout[k].v) : stdout[k].v[j] \notin {"\n", "\""}
    /\ (proc = "done" /\ delivered = <<>>) => stdout = <<P("{"), P("}")>>

C7_Witness ==
    /\ proc = "done"
    /\ Len(delivered) = 2
    /\ Len(stdout) = 9

\* C8: the index found addresses the first entry of the full directory whose
\* name decodes and ends in "/METADATA"; the search fails exactly when no entry
\* does; a bare "METADATA" does not match.
GlobMatch(name) ==
    /\ name.ok
    /\ Len(name.toks) >= 2
    /\ name.toks[Len(name.toks) - 1] = "/"
    /\ name.toks[Len(name.toks)] = "METADATA"

C8_FirstMatchingEntry ==
    \A i \in Tasks :
        /\ pc[i] = "EntryLocated" =>
              /\ entry[i] + 1 \in 1..Len(archive[i])
              /\ GlobMatch(archive[i][entry[i] + 1].name)
              /\ \A j \in 1..entry[i] : ~GlobMatch(archive[i][j].name)
        /\ (pc[i] = "Failed" /\ cause[i] = "NotFoundError") =>
              \A j \in 1..Len(archive[i]) : ~GlobMatch(archive[i][j].name)
        /\ pc[i] \in {"EntryLocated", "Failed"} =>
              (pc[i] = "Failed" <=> \A j \in 1..Len(archive[i]) : ~GlobMatch(archive[i][j].name))

C8_Witness ==
    /\ pc = <<"EntryLocated">>
    /\ entry[1] = 1
    /\ ~archive[1][1].name.ok
    /\ Len(archive[1]) = 2

\* C9: a string that parses as a URL gives a locator exactly when its scheme is
\* http, https or file: a remote locator for http(s), a local one showing only
\* the path for file, the error "unknown scheme" otherwise; every locator has
\* one variant and an allowed scheme.
C9_SchemeAllowList ==
    \A k \in 1..Len(parsed) :
        LET u == UrlParse(args[k])
            r == parsed[k]
        IN  /\ u.ok =>
                /\ r.ok <=> u.url.scheme \in {"http", "https", "file"}
                /\ u.url.scheme \in {"http", "https"} =>
                      r.val.url_type = "Httpx" /\ r.val.url = u.url
                /\ u.url.scheme = "file" =>
                      r.val.url_type = "File" /\ Display(r.val) = u.url.path
                /\ ~r.ok => r.err = "unknown scheme"
            /\ r.ok =>
                /\ r.val.url_type \in {"Httpx", "File"}
                /\ r.val.url.scheme \in {"http", "https", "file"}
                /\ r.val.url_type = "Httpx" <=> r.val.url.scheme \in {"http", "https"}

C9_Witness ==
    /\ Len(parsed) = 1
    /\ UrlParse(args[1]).ok
    /\ parsed[1].ok
    /\ parsed[1].val.url_type = "File"
    /\ parsed[1].val.url.host # ""

\* C10: a string that does not parse as a URL gives a local locator for that
\* path, relative paths included.
PctDecode(tok) == IF tok = "a%20b.whl" THEN "a b.whl" ELSE tok

C10_BarePathIsLocal ==
    \A k \in 1..Len(parsed) :
        ~UrlParse(args[k]).ok =>
            /\ parsed[k].ok
            /\ parsed[k].val.url_type = "File"
            /\ [j \in 1..Len(Path(parsed[k].val)) |-> PctDecode(Path(parsed[k].val)[j])]
                  = DropTrailingSlash(args[k])

\* C11: every locator whose task succeeded has one member in the output, under
\* its display name, or under the full locator string when it has no display
\* name; a locator without a name neither aborts the run nor loses its member.
C11_MemberForEverySuccess ==
    \A i \in Tasks : pc[i] = "Completed" =>
        /\ \E k \in 1..Len(delivered) :
              /\ delivered[k].task = i
              /\ FileName(urls[i]).ok => delivered[k].key = FileName(urls[i]).val
              /\ ~FileName(urls[i]).ok => <<delivered[k].key>> = Display(urls[i])
        /\ ~(proc = "panicked" /\ ~FileName(urls[i]).ok)

\* C12: the display name of a parsed locator is the final path segment of the
\* string it was parsed from, whatever the scheme, and there is none exactly
\* when the path of the string has no segment.
RawPathOf(s) ==
    IF s # <<>> /\ s[1] = "/" THEN s
    ELSE IF Len(s) >= 3 /\ s[2] = ":" /\ s[3] = "//"
    THEN SubSeq(s, 3 + FirstSlash(SubSeq(s, 4, Len(s))), Len(s))
    ELSE <<>>

FinalSegment(path) ==
    LET segs == SelectSeq(path, LAMBDA t : t # "/")
    IN  IF segs = <<>> THEN "" ELSE segs[Len(segs)]

C12_DisplayNameIsFinalSegment ==
    \A k \in 1..Len(parsed) :
        parsed[k].ok =>
            LET seg == FinalSegment(RawPathOf(args[k]))
                fn == FileName(parsed[k].val)
            IN  /\ fn.ok <=> seg # ""
                /\ fn.ok => fn.val = seg

\* C13: a task only moves one step forward along Pending, BackendResolved,
\* ArchiveOpened, EntryLocated, EntryRead, Completed, or from a non-terminal
\* step to Failed with a cause of that step; Completed and Failed are never
\* left; EntryRead is entered only with the bytes of the located entry of the
\* opened archive.
NextStep(st) ==
    CASE st = "Pending" -> "BackendResolved"
      [] st = "BackendResolved" -> "ArchiveOpened"
      [] st = "ArchiveOpened" -> "EntryLocated"
      [] st = "EntryLocated" -> "EntryRead"
      [] st = "EntryRead" -> "Completed"
      [] OTHER -> "none"

CausesOf(st) ==
    CASE st = "Pending" -> {"build"}
      [] st = "BackendResolved" -> {"IOError", "ArchiveError"}
      [] st = "ArchiveOpened" -> {"NotFoundError"}
      [] st = "EntryLocated" -> {"IOError"}
      [] st = "EntryRead" -> {"EncodingError"}
      [] OTHER -> {}

C13_ForwardOnly ==
    [][ /\ \A i \in (DOMAIN pc') \ (DOMAIN pc) : pc'[i] = "Pending"
        /\ \A i \in DOMAIN pc :
              /\ i \in DOMAIN pc'
              /\ pc[i] \in Terminal => (pc'[i] = pc[i] /\ cause'[i] = cause[i])
              /\ pc'[i] # pc[i] =>
                    /\ \/ pc'[i] = NextStep(pc[i])
                       \/ pc'[i] = "Failed" /\ cause'[i] \in CausesOf(pc[i])
                    /\ pc'[i] = "EntryRead" =>
                          /\ entry[i] + 1 \in 1..Len(archive[i])
                          /\ GlobMatch(archive[i][entry[i] + 1].name)
                          /\ buf'[i] = archive[i][entry[i] + 1].data ]_vars

C13_Witness ==
    \E i, j \in Tasks :
        /\ pc[i] = "Completed"
        /\ pc[j] = "Failed"
        /\ cause[j] = "EncodingError"

\* C14: when one argument does not parse, the process ends in Args::parse: no
\* fetch task exists for any argument, no backend is built, nothing is written.
C14_ParseErrorIsFatal ==
    (proc # "init" /\ \E k \in 1..Len(args) : ~FromStr(args[k]).ok) =>
        /\ proc = "usage_error"
        /\ Tasks = {}
        /\ pc = <<>>
        /\ built = <<>>
        /\ stdout = <<>>

C14_Witness ==
    /\ proc = "usage_error"
    /\ Len(args) = 2
    /\ \E k \in 1..2 : parsed[k].ok
    /\ \E k \in 1..2 : ~parsed[k].ok /\ parsed[k].err = "unknown scheme"

\* C15: for an archive with exactly one entry matching */METADATA, of bytes B,
\* the task reads exactly B, completes only if B is UTF-8 and then hands over
\* the text of B under the name of its own locator; it fails with
\* EncodingError only if B is not UTF-8.
MatchingEntries(dir) == {k \in 1..Len(dir) : GlobMatch(dir[k].name)}

C15_RoundTrip ==
    \A i \in Tasks :
        Cardinality(MatchingEntries(archive[i])) = 1 =>
            LET B == archive[i][CHOOSE k \in MatchingEntries(archive[i]) : TRUE].data
            IN  /\ pc[i] \in {"EntryRead", "Completed"} => buf[i] = B
                /\ pc[i] = "Completed" =>
                      /\ B.utf8
                      /\ \A k \in 1..Len(delivered) : delivered[k].task = i =>
                            /\ delivered[k].text = B.text
                            /\ delivered[k].key = FileName(urls[i]).val
                /\ (pc[i] = "Failed" /\ cause[i] = "EncodingError") => (~B.utf8 /\ buf[i] = B)

C15_Witness ==
    \E i, j \in Tasks :
        /\ pc[i] = "Completed"
        /\ Len(archive[i]) = 2
        /\ ~archive[i][1].name.ok
        /\ \E k \in 1..Len(delivered) : delivered[k].task = i /\ delivered[k].text = TextA
        /\ pc[j] = "Failed" /\ cause[j] = "EncodingError"

\* C16: what Display shows of a parsed locator is the URL (remote) or the
\* filesystem path it was given (local), and parsing what it shows gives the
\* same locator again.
C16_DisplayRoundTrip ==
    \A k \in 1..Len(parsed) :
        parsed[k].ok =>
            LET w == parsed[k].val
            IN  /\ w.url_type = "Httpx" => Display(w) = UrlToString(UrlParse(args[k]).url)
                /\ (w.url_type = "File" /\ ~UrlParse(args[k]).ok) =>
                      Display(w) = DropTrailingSlash(args[k])
                /\ FromStr(Display(w)) = Ok(w)

(***************************************************************************)
(* Services: the cache of operators of reader.rs, over sequences of calls  *)
(* of Services::operator.                                                  *)
(***************************************************************************)
\* a plausible slip: insert() instead of entry().or_insert_with()
CacheAlwaysInsert(svcs, key, fresh) ==
    [k \in DOMAIN svcs \cup {key} |-> IF k = key THEN fresh ELSE svcs[k]]

\* HashMap::entry(key).or_insert_with(build): build runs only for a vacant key
OrInsertWith(svcs, key, fresh) ==
    IF key \in DOMAIN svcs THEN svcs
    ELSE [k \in DOMAIN svcs \cup {key} |-> IF k = key THEN fresh ELSE svcs[k]]

\* url.service().build(): an operator bound to the endpoint of url; serial
\* tells one built operator from another
BuildOperator(w, serial) ==
    [kind |-> w.url_type, endpoint |-> Endpoint(w), serial |-> serial]

\* Services::operator(url)
Operator(u) ==
    /\ svc = "ready"
    /\ Len(opCalls) < MaxCalls
    /\ \/ /\ ServicePanics(u)
          /\ svc' = "panicked"
          /\ UNCHANGED <<services, opCalls>>
       \/ /\ ~ServicePanics(u)
          /\ OriginKey(u) \notin DOMAIN services
          /\ svc' = "panicked"
          /\ UNCHANGED <<services, opCalls>>
       \/ /\ ~ServicePanics(u)
          /\ services' = OrInsertWith(services, OriginKey(u),
                                      BuildOperator(u, Len(opCalls) + 1))
          /\ opCalls' = Append(opCalls, [url |-> u, handle |-> services'[OriginKey(u)]])
          /\ UNCHANGED svc
    /\ UNCHANGED pipelineVars

PortUrl == <<"https", ":", "//", "h.org", ":", "8080", "/", "a.whl">>

CacheInputs ==
    { UrlRemote, UrlRoot, PortUrl, UrlLocal, UrlIp,
      <<"http", ":", "//", "h.org", "/", "a.whl">>,
      <<"https", ":", "//", "h.org", "/", "d">>,
      <<"/", "a.whl">> }

CacheLocators == {FromStr(s).val : s \in {t \in CacheInputs : FromStr(t).ok}}

InitCache ==
    /\ CacheEmpty
    /\ args = <<>>
    /\ proc = "init"
    /\ parsed = <<>>
    /\ urls = <<>>
    /\ pc = <<>>
    /\ cause = <<>>
    /\ archive = <<>>
    /\ entry = <<>>
    /\ buf = <<>>
    /\ hung = {}
    /\ built = <<>>
    /\ completed = <<>>
    /\ held = {}
    /\ delivered = <<>>
    /\ stdout = <<>>

NextCache == \E u \in CacheLocators : Operator(u)

SpecCache == InitCache /\ [][NextCache]_vars

\* C17: after any calls of Services::operator the cache holds a handle for
\* exactly the keys (locator type, endpoint) that were requested; the handle
\* a call returned is still the cache's handle of the call's key (no entry is
\* replaced or removed) and is bound to that key; two calls returned the same
\* handle if and only if their locators have the same key.
C17_OneHandlePerKey ==
    /\ DOMAIN services = {OriginKey(opCalls[k].url) : k \in 1..Len(opCalls)}
    /\ \A k \in 1..Len(opCalls) :
          LET c == opCalls[k]
          IN  /\ c.handle = services[OriginKey(c.url)]
              /\ <<c.handle.kind, c.handle.endpoint>> = OriginKey(c.url)
    /\ \A j, k \in 1..Len(opCalls) :
          (OriginKey(opCalls[j].url) = OriginKey(opCalls[k].url))
              <=> (opCalls[j].handle = opCalls[k].handle)

\* three calls returned: two locators of one origin, then one of another
C17_Witness ==
    /\ Len(opCalls) = 3
    /\ opCalls[1].url # opCalls[2].url
    /\ opCalls[1].handle = opCalls[2].handle
    /\ opCalls[3].handle # opCalls[1].handle
    /\ Cardinality(DOMAIN services) = 2

\* C18: every locator that parse accepts resolves to a backend: for no task
\* of a run, whether its host is a domain name or an IP address, does
\* computing the endpoint and building the service abort the process.
C18_AcceptedLocatorResolves ==
    \A i \in Tasks :
        urls[i].url_type = "Httpx" =>
            /\ ~(proc = "panicked" /\ cause[i] = "unwrap on None")
            /\ (pc[i] \notin {"Pending", "Failed"}) => OriginKey(urls[i]) \in Range(built)

\* C19: the endpoint of a remote locator addresses the server of its URL: two
\* remote locators that were given the same operator (the same cache key)
\* agree on scheme, host and port, and an explicit non-default port of the
\* URL is part of the endpoint its operator is bound to.
C19_EndpointAddressesServer ==
    /\ \A j, k \in 1..Len(opCalls) :
          LET a == opCalls[j]
              b == opCalls[k]
          IN  (a.url.url_type = "Httpx" /\ b.url.url_type = "Httpx"
                    /\ a.handle = b.handle) =>
                  /\ a.url.url.scheme = b.url.url.scheme
                  /\ a.url.url.host = b.url.url.host
                  /\ a.url.url.port = b.url.url.port
    /\ \A k \in 1..Len(opCalls) :
          LET c == opCalls[k]
          IN  (c.url.url_type = "Httpx" /\ c.url.url.port # "") =>
                  c.url.url.port \in Range(c.handle.endpoint)

\* C20: when every task of a run succeeded and the run has ended, the output
\* object has as many members as there were locators: no member is merged,
\* overwritten or dropped, equal keys included.
C20_MemberPerLocator ==
    (proc \in Ended /\ \A i \in Tasks : pc[i] = "Completed") =>
        NMembers(stdout) = Len(urls)

====
